---- MODULE Spec2Model ----
(***************************************************************************)
(* Model of scripts/generate-paradox-logo.py: the geometry pipeline that   *)
(* finds the crossings of two ellipses, computes the gap half-angles of    *)
(* the under band, cuts both bands into arcs and orders the shapes.        *)
(*                                                                         *)
(* Real numbers are fixed-point integers in units of 10^-6 (One = 1.0).    *)
(* TLC integers are 32 bits wide, so products and quotients are computed   *)
(* by Mul and Div, which split their operands to stay inside that width.   *)
(* The math-library calls of the source (sin, cos, sqrt, atan2, acos) are  *)
(* computed by series and search on these integers, to about 10^-6.        *)
(* Val({e : v \in {x}}) names the value of x as v in e, so that x is        *)
(* computed once however often e uses it.                                  *)
(***************************************************************************)
EXTENDS Integers, Sequences, FiniteSets

\* ── Fixed-point arithmetic ──────────────────────────────────────────────

One == 1000 * 1000

\* The element of a one-element set.
Val(S) == CHOOSE v \in S : TRUE

Abs(a) == IF a < 0 THEN 0 - a ELSE a

Sgn(a) == IF a < 0 THEN 0 - 1 ELSE 1

\* a * b for non-negative fixed-point a, b (rounded down).
MulPos(a, b) ==
    LET ah == a \div 1000
        al == a % 1000
        bh == b \div 1000
        bl == b % 1000
    IN  ah * bh + ((ah * bl + al * bh + ((al * bl) \div 1000)) \div 1000)

\* The float product a * b.
Mul(a, b) ==
    Val({Sgn(x) * Sgn(y) * MulPos(Abs(x), Abs(y)) : x \in {a}, y \in {b}})

\* a / b for non-negative a and positive b (rounded down), digit by digit.
DivPos(a, b) ==
    LET q0 == a \div b
        r0 == a % b
        q1 == (r0 * 10) \div b
        r1 == (r0 * 10) % b
        q2 == (r1 * 10) \div b
        r2 == (r1 * 10) % b
        q3 == (r2 * 10) \div b
        r3 == (r2 * 10) % b
        q4 == (r3 * 10) \div b
        r4 == (r3 * 10) % b
        q5 == (r4 * 10) \div b
        r5 == (r4 * 10) % b
        q6 == (r5 * 10) \div b
    IN  q0 * One + q1 * 100000 + q2 * 10000 + q3 * 1000 + q4 * 100 + q5 * 10 + q6

\* The float quotient a / b, b # 0.
Div(a, b) ==
    Val({Sgn(x) * Sgn(y) * DivPos(Abs(x), Abs(y)) : x \in {a}, y \in {b}})

\* y * y <= x exactly (no rounding) for non-negative fixed-point y, x:
\* y = yh * 1000 + yl, so y^2 = yh^2 * 10^6 + (2 yh yl) * 10^3 + yl^2.
SquareLeq(y, x) ==
    LET yh == y \div 1000
        yl == y % 1000
        m  == 2 * yh * yl + ((yl * yl) \div 1000)
        whole == yh * yh + (m \div 1000)
        exact == (m % 1000 = 0) /\ ((yl * yl) % 1000 = 0)
    IN  whole < x \/ (whole = x /\ exact)

\* Largest y in lo..hi with y * y <= x, by bisection (lo * lo <= x).
RECURSIVE SqrtSearch(_, _, _)
SqrtSearch(x, lo, hi) ==
    IF lo >= hi THEN lo
    ELSE LET mid == (lo + hi + 1) \div 2
         IN  IF SquareLeq(mid, x)
             THEN SqrtSearch(x, mid, hi)
             ELSE SqrtSearch(x, lo, mid - 1)

\* math.sqrt(x) for 0 <= x < 2000.
Sqrt(x) == Val({SqrtSearch(v, 0, 45 * One) : v \in {x}})

\* 2 * math.pi, math.pi and math.pi / 2.
TwoPi == 6283185

Pi == TwoPi \div 2

HalfPi == TwoPi \div 4

\* sin(t) for 0 <= t <= pi/2: the Taylor series in Horner form.
SinSeries(t) ==
    LET t2 == Val({MulPos(v, v) : v \in {t}})
        p7 == One - (t2 \div 210)
        p6 == One - (MulPos(t2, p7) \div 156)
        p5 == One - (MulPos(t2, p6) \div 110)
        p4 == One - (MulPos(t2, p5) \div 72)
        p3 == One - (MulPos(t2, p4) \div 42)
        p2 == One - (MulPos(t2, p3) \div 20)
        p1 == One - (MulPos(t2, p2) \div 6)
    IN  MulPos(t, p1)

\* cos(t) for 0 <= t <= pi/2.
CosSeries(t) ==
    LET t2 == Val({MulPos(v, v) : v \in {t}})
        p7 == One - (t2 \div 182)
        p6 == One - (MulPos(t2, p7) \div 132)
        p5 == One - (MulPos(t2, p6) \div 90)
        p4 == One - (MulPos(t2, p5) \div 56)
        p3 == One - (MulPos(t2, p4) \div 30)
        p2 == One - (MulPos(t2, p3) \div 12)
        p1 == One - (MulPos(t2, p2) \div 2)
    IN  IF p1 < 0 THEN 0 ELSE p1

\* math.sin(t), any t: reduced to the first quadrant.
Sin(t) ==
    Val({IF r <= HalfPi THEN SinSeries(r)
         ELSE IF r <= Pi THEN SinSeries(Pi - r)
         ELSE IF r <= Pi + HalfPi THEN 0 - SinSeries(r - Pi)
         ELSE 0 - SinSeries(TwoPi - r) : r \in {t % TwoPi}})

\* math.cos(t), any t.
Cos(t) ==
    Val({IF r <= HalfPi THEN CosSeries(r)
         ELSE IF r <= Pi THEN 0 - CosSeries(Pi - r)
         ELSE IF r <= Pi + HalfPi THEN 0 - CosSeries(r - Pi)
         ELSE CosSeries(TwoPi - r) : r \in {t % TwoPi}})

\* tan(a / 2) from z = tan(a), 0 <= z <= 1.
HalfTangent(z) ==
    Val({DivPos(v, One + Sqrt(One + MulPos(v, v))) : v \in {z}})

\* atan(w) for 0 <= w <= 0.2: the Taylor series in Horner form.
AtanSeries(w) ==
    LET w2 == MulPos(w, w)
        p6 == (One \div 13)
        p5 == (One \div 11) - MulPos(w2, p6)
        p4 == (One \div 9) - MulPos(w2, p5)
        p3 == (One \div 7) - MulPos(w2, p4)
        p2 == (One \div 5) - MulPos(w2, p3)
        p1 == (One \div 3) - MulPos(w2, p2)
        p0 == One - MulPos(w2, p1)
    IN  MulPos(w, p0)

\* atan(z) for 0 <= z <= 1: two angle halvings, then the series.
AtanUnit(z) == Val({4 * AtanSeries(w) : w \in {HalfTangent(HalfTangent(z))}})

\* The angle of (ax, ay) in the first quadrant, ax >= 0, ay >= 0.
AtanQuadrant(ay, ax) ==
    IF ax = 0 /\ ay = 0 THEN 0
    ELSE IF ay <= ax THEN AtanUnit(DivPos(ay, ax))
    ELSE HalfPi - AtanUnit(DivPos(ax, ay))

\* math.atan2(y, x), in (-pi, pi].
Atan2(y, x) ==
    Val({Val({IF vx >= 0 THEN (IF vy >= 0 THEN phi ELSE 0 - phi)
              ELSE (IF vy >= 0 THEN Pi - phi ELSE phi - Pi)
                 : phi \in {AtanQuadrant(Abs(vy), Abs(vx))}})
            : vy \in {y}, vx \in {x}})

\* math.acos(x) for 0 <= x <= 1.
Acos(x) == Val({Atan2(Sqrt(One - MulPos(v, v)), v) : v \in {x}})

\* ── State ───────────────────────────────────────────────────────────────

VARIABLES
    params,        \* the Parameters block: the radii of both bands and the thickness
    pc,            \* position in generate_svg / find_crossings
    i,             \* find_crossings: the sample index of the for loop
    crossings,     \* the list of (ta, tb) pairs
    diagnostic,    \* the AssertionError message, or "none"
    a_gap_halves,  \* crossing index -> gap half-angle of ring A
    b_gap_halves,  \* crossing index -> gap half-angle of ring B
    idx,           \* the arc index of the segment loops
    a_arcs,        \* ring A: the locals of each iteration of the segment loop
    b_arcs,        \* ring B: the same
    a_segments,    \* ring A: the surviving (t_start, t_end, z)
    b_segments,    \* ring B: the same
    all_paths,     \* the (z, d) list
    svg,           \* the returned document: its <path> lines in order, or "none"
    call           \* one call of crossing_gap_half: its arguments and its result

vars == <<params, pc, i, crossings, diagnostic, a_gap_halves, b_gap_halves, idx,
          a_arcs, b_arcs, a_segments, b_segments, all_paths, svg, call>>

\* ── Parameters ──────────────────────────────────────────────────────────

\* The radii and thickness of the source, A 9.0 x 5.5, B 5.5 x 9.0, 2.2.
BuiltIn ==
    [A_RX |-> 9000000, A_RY |-> 5500000, B_RX |-> 5500000, B_RY |-> 9000000,
     THICKNESS |-> 2200000]

\* The parameter sets the pipeline is run on: the built-in one, and edits of
\* band B's radii and of the thickness that change the crossing topology.
\*   2: a thick band, some arcs shorter than their gap
\*   3: B a circle touching A at (0, +-5.5): two samples kept per touching point
\*   4: B inside A: no crossing
\*   5: B equal to A: every sample is on B
\*   6: B touching A at (+-9, 0): clusters wider than the separation threshold
ParameterSets ==
    << BuiltIn,
       [BuiltIn EXCEPT !.B_RX = 7000000, !.B_RY = 7250000, !.THICKNESS = 8800000],
       [BuiltIn EXCEPT !.B_RY = 5500000],
       [BuiltIn EXCEPT !.B_RY = 3750000],
       [BuiltIn EXCEPT !.B_RX = 9000000, !.B_RY = 5500000],
       [BuiltIn EXCEPT !.B_RX = 9000000] >>

A_RX == params.A_RX

A_RY == params.A_RY

B_RX == params.B_RX

B_RY == params.B_RY

THICKNESS == params.THICKNESS

GAP_MARGIN == 400000

ARC_SAMPLES == 60

\* ── Geometry helpers ────────────────────────────────────────────────────

\* Python list indexing, from 0.
At(list, k) == list[k + 1]

ellipse_tangent_speed(rx, ry, t) ==
    Val({Sqrt(Mul(dx, dx) + Mul(dy, dy))
            : dx \in {0 - Mul(rx, Sin(t))}, dy \in {Mul(ry, Cos(t))}})

\* Whether the division by mag in ellipse_tangent raises ZeroDivisionError.
TangentRaises(rx, ry, t) == ellipse_tangent_speed(rx, ry, t) = 0

ellipse_tangent(rx, ry, t) ==
    Val({Val({<<Div(dx, mag), Div(dy, mag)>>
                 : mag \in {Sqrt(Mul(dx, dx) + Mul(dy, dy))}})
            : dx \in {0 - Mul(rx, Sin(t))}, dy \in {Mul(ry, Cos(t))}})

normalize_angle(a) ==
    LET r == a % TwoPi
    IN  IF r < 0 THEN r + TwoPi ELSE r

\* ── find_crossings ──────────────────────────────────────────────────────

N == 7200

\* The tolerance of the implicit-equation test.
Tolerance == 3000

\* The minimum separation of two kept crossings on A.
MinSeparation == 50000

\* ta = 2 * math.pi * i / N, without leaving 32 bits.
SampleAngle(k) == (TwoPi \div N) * k + (((TwoPi % N) * k) \div N)

\* cb * cb + sb * sb for the point of A at parameter ta.
ImplicitB(ta) ==
    Val({Mul(cb, cb) + Mul(sb, sb)
            : cb \in {Div(Mul(A_RX, Cos(ta)), B_RX)},
              sb \in {Div(Mul(A_RY, Sin(ta)), B_RY)}})

\* abs(r2 - 1.0) < 0.003
\* (faulty variant: the abs dropped)
WithinToleranceSigned(r2) == r2 - One < Tolerance

WithinTolerance(r2) == Abs(r2 - One) < Tolerance

\* any(abs(ta - ta2) < 0.05 for ta2, _ in crossings)
\* (faulty variant: no deduplication)
IsDuplicateNever(ta, list) == FALSE

IsDuplicate(ta, list) ==
    \E k \in 1..Len(list) : Abs(ta - list[k][1]) < MinSeparation

\* One iteration of the for loop: the crossings list after sample k.
FindSample(list, k) ==
    Val({Val({IF Abs(cb) > One \/ Abs(sb) > One THEN list
              ELSE IF WithinTolerance(ImplicitB(ta)) /\ ~IsDuplicate(ta, list)
                   THEN Append(list, <<ta, Atan2(sb, cb)>>)
                   ELSE list
                 : cb \in {Div(Mul(A_RX, Cos(ta)), B_RX)},
                   sb \in {Div(Mul(A_RY, Sin(ta)), B_RY)}})
            : ta \in {SampleAngle(k)}})

\* Tuple order of (ta, tb) pairs.
PairLess(p, q) == p[1] < q[1] \/ (p[1] = q[1] /\ p[2] < q[2])

\* The place of element k in the sorted list: one more than the number of
\* elements that sort before it (a smaller pair, or an equal one met earlier).
PairRank(list, k) ==
    1 + Cardinality({j \in 1..Len(list) :
                        \/ PairLess(list[j], list[k])
                        \/ (~PairLess(list[k], list[j]) /\ j < k)})

\* crossings.sort()
SortPairs(list) ==
    [r \in 1..Len(list) |-> list[CHOOSE k \in 1..Len(list) : PairRank(list, k) = r]]

FindStep ==
    /\ pc = "find"
    /\ i < N
    /\ crossings' = FindSample(crossings, i)
    /\ i' = i + 1
    /\ UNCHANGED <<params, pc, diagnostic, a_gap_halves, b_gap_halves, idx,
                   a_arcs, b_arcs, a_segments, b_segments, all_paths, svg, call>>

FindReturn ==
    /\ pc = "find"
    /\ i = N
    /\ crossings' = SortPairs(crossings)
    /\ pc' = "assert"
    /\ UNCHANGED <<params, i, diagnostic, a_gap_halves, b_gap_halves, idx,
                   a_arcs, b_arcs, a_segments, b_segments, all_paths, svg, call>>

\* ── crossing_gap_half ───────────────────────────────────────────────────

\* The crossing angle at or below which the sine is floored, and the floor.
MinCrossAngle == 10000

MinSinCross == 10000

Min(a, b) == IF a < b THEN a ELSE b

\* cross_angle: the angle between the two tangent directions.
CrossAngle(ta, tb) ==
    Val({Val({Acos(Min(dot, One))
                 : dot \in {Abs(Mul(tA[1], tB[1]) + Mul(tA[2], tB[2]))}})
            : tA \in {ellipse_tangent(A_RX, A_RY, ta)},
              tB \in {ellipse_tangent(B_RX, B_RY, tb)}})

\* sin_cross
\* (faulty variant: no floor for near-parallel tangents)
SinCrossNoFloor(cross_angle) == Sin(cross_angle)

SinCross(cross_angle) ==
    Val({IF v > MinCrossAngle THEN Sin(v) ELSE MinSinCross : v \in {cross_angle}})

\* speed: the tangent speed of the under ring at the crossing.
UnderSpeed(ta, tb, under_is_a) ==
    IF under_is_a THEN ellipse_tangent_speed(A_RX, A_RY, ta)
    ELSE ellipse_tangent_speed(B_RX, B_RY, tb)

\* Whether the call raises ZeroDivisionError: in ellipse_tangent, in
\* THICKNESS / sin_cross or in the division by speed.
GapRaises(ta, tb, under_is_a) ==
    \/ TangentRaises(A_RX, A_RY, ta)
    \/ TangentRaises(B_RX, B_RY, tb)
    \/ SinCross(CrossAngle(ta, tb)) = 0
    \/ UnderSpeed(ta, tb, under_is_a) = 0

\* gap_half = (projected_width / 2 + GAP_MARGIN) / speed
\* (faulty variant: the margin halved with the width)
GapFormulaHalfMargin(projected_width, speed) ==
    Div((projected_width + GAP_MARGIN) \div 2, speed)

GapFormula(projected_width, speed) ==
    Div((projected_width \div 2) + GAP_MARGIN, speed)

crossing_gap_half(ta, tb, under_is_a) ==
    LET sin_cross == SinCross(CrossAngle(ta, tb))
        projected_width == Div(THICKNESS, sin_cross)
        speed == UnderSpeed(ta, tb, under_is_a)
    IN  GapFormula(projected_width, speed)

\* ── generate_svg ────────────────────────────────────────────────────────

\* len(crossings) == 4
\* (faulty variant: more than 4 crossings accepted)
AssertHoldsAtLeast(list) == Len(list) >= 4

AssertHolds(list) == Len(list) = 4

AssertFail ==
    /\ pc = "assert"
    /\ ~AssertHolds(crossings)
    /\ diagnostic' = <<"Expected 4 crossings, got", Len(crossings)>>
    /\ pc' = "aborted"
    /\ UNCHANGED <<params, i, crossings, a_gap_halves, b_gap_halves, idx,
                   a_arcs, b_arcs, a_segments, b_segments, all_paths, svg, call>>

AssertPass ==
    /\ pc = "assert"
    /\ AssertHolds(crossings)
    /\ pc' = "gaps"
    /\ UNCHANGED <<params, i, crossings, diagnostic, a_gap_halves, b_gap_halves,
                   idx, a_arcs, b_arcs, a_segments, b_segments, all_paths, svg,
                   call>>

\* a_on_top = [True, False, True, False]
\* (faulty variant: the pattern in pairs instead of alternating)
a_on_top_pairs == <<TRUE, TRUE, FALSE, FALSE>>

a_on_top == <<TRUE, FALSE, TRUE, FALSE>>

\* The crossing indices of enumerate(crossings) where ring A goes under
\* (B on top), and those where ring B goes under (A on top).
UnderA == {ci \in 0..(Len(crossings) - 1) : ~At(a_on_top, ci)}

UnderB == {ci \in 0..(Len(crossings) - 1) : At(a_on_top, ci)}

\* The loop over the crossings: both gap tables, or a raised error.
ComputeGaps ==
    /\ pc = "gaps"
    /\ IF \E ci \in 0..(Len(crossings) - 1) :
             GapRaises(At(crossings, ci)[1], At(crossings, ci)[2], ci \in UnderA)
       THEN /\ pc' = "raised"
            /\ UNCHANGED <<a_gap_halves, b_gap_halves>>
       ELSE /\ a_gap_halves' =
                  [ci \in UnderA |->
                      crossing_gap_half(At(crossings, ci)[1], At(crossings, ci)[2], TRUE)]
            /\ b_gap_halves' =
                  [ci \in UnderB |->
                      crossing_gap_half(At(crossings, ci)[1], At(crossings, ci)[2], FALSE)]
            /\ pc' = "ringA"
    /\ UNCHANGED <<params, i, crossings, diagnostic, idx, a_arcs, b_arcs,
                   a_segments, b_segments, all_paths, svg, call>>

\* a_cross_angles, b_cross_angles
a_cross_angles == [k \in 1..Len(crossings) |-> normalize_angle(crossings[k][1])]

b_cross_angles == [k \in 1..Len(crossings) |-> normalize_angle(crossings[k][2])]

\* The place of index k (from 0) in the stable sort of the indices by key.
IndexRank(keys, k) ==
    1 + Cardinality({j \in 0..(Len(keys) - 1) :
                        \/ At(keys, j) < At(keys, k)
                        \/ (At(keys, j) = At(keys, k) /\ j < k)})

\* sorted(range(n), key=lambda k: keys[k]), a stable sort
SortedIndices(keys) ==
    [r \in 1..Len(keys) |-> CHOOSE k \in 0..(Len(keys) - 1) : IndexRank(keys, k) = r]

a_sorted == SortedIndices(a_cross_angles)

b_sorted == SortedIndices(b_cross_angles)

\* if t_end <= t_start: t_end += 2 * math.pi
\* (faulty variant: the last arc not wrapped)
WrapEndNever(t_start, t_end) == t_end

WrapEnd(t_start, t_end) == IF t_end <= t_start THEN t_end + TwoPi ELSE t_end

\* if ci_start in gap_halves: t_start += gap_halves[ci_start]
StartGap(t, ci, gap_halves) ==
    IF ci \in DOMAIN gap_halves THEN t + gap_halves[ci] ELSE t

\* if ci_end in gap_halves: t_end -= gap_halves[ci_end]
\* (faulty variant: the gap added to the end instead of subtracted)
EndGapAdded(t, ci, gap_halves) ==
    IF ci \in DOMAIN gap_halves THEN t + gap_halves[ci] ELSE t

EndGap(t, ci, gap_halves) ==
    IF ci \in DOMAIN gap_halves THEN t - gap_halves[ci] ELSE t

\* if t_end <= t_start: continue
\* (faulty variant: empty and inverted arcs kept)
IsSkippedNever(t_start, t_end) == FALSE

IsSkipped(t_start, t_end) == t_end <= t_start

\* The locals of iteration k of a segment loop: the candidate arc before the
\* gaps (from, to), after them (t_start, t_end), and its z.
Arc(k, order, angles, gap_halves, z_top, z_under) ==
    LET ci_start == At(order, k)
        ci_end == At(order, (k + 1) % 4)
        from == At(angles, ci_start)
        to == WrapEnd(from, At(angles, ci_end))
    IN  [ci_start |-> ci_start,
         ci_end |-> ci_end,
         from |-> from,
         to |-> to,
         t_start |-> StartGap(from, ci_start, gap_halves),
         t_end |-> EndGap(to, ci_end, gap_halves),
         z |-> IF At(a_on_top, ci_start) THEN z_top ELSE z_under]

\* segments after one iteration: the arc appended unless it is skipped.
Keep(segments, arc) ==
    IF IsSkipped(arc.t_start, arc.t_end) THEN segments
    ELSE Append(segments, <<arc.t_start, arc.t_end, arc.z>>)

\* One iteration of the loop that builds the segments of ring A.
RingAStep ==
    /\ pc = "ringA"
    /\ LET arc == Arc(idx, a_sorted, a_cross_angles, a_gap_halves, 2, 0)
       IN  /\ a_arcs' = Append(a_arcs, arc)
           /\ a_segments' = Keep(a_segments, arc)
    /\ idx' = IF idx = 3 THEN 0 ELSE idx + 1
    /\ pc' = IF idx = 3 THEN "ringB" ELSE pc
    /\ UNCHANGED <<params, i, crossings, diagnostic, a_gap_halves, b_gap_halves,
                   b_arcs, b_segments, all_paths, svg, call>>

\* One iteration of the loop that builds the segments of ring B.
RingBStep ==
    /\ pc = "ringB"
    /\ LET arc == Arc(idx, b_sorted, b_cross_angles, b_gap_halves, 0, 2)
       IN  /\ b_arcs' = Append(b_arcs, arc)
           /\ b_segments' = Keep(b_segments, arc)
    /\ idx' = IF idx = 3 THEN 0 ELSE idx + 1
    /\ pc' = IF idx = 3 THEN "paths" ELSE pc
    /\ UNCHANGED <<params, i, crossings, diagnostic, a_gap_halves, b_gap_halves,
                   a_arcs, a_segments, all_paths, svg, call>>

CX == 12

CY == 12

\* The path data of an annular arc: fixed by its arguments; 2 * (samples + 1)
\* points, the outer arc forward and the inner arc in reverse.
arc_path_annulus(cx, cy, rx, ry, thickness, t_start, t_end, samples) ==
    [cx |-> cx, cy |-> cy, rx |-> rx, ry |-> ry, thickness |-> thickness,
     t_start |-> t_start, t_end |-> t_end, points |-> 2 * (samples + 1)]

\* all_paths: the shapes of ring A, then those of ring B.
GeneratePaths ==
    /\ pc = "paths"
    /\ all_paths' =
          [k \in 1..Len(a_segments) |->
              <<a_segments[k][3],
                arc_path_annulus(CX, CY, A_RX, A_RY, THICKNESS, a_segments[k][1],
                                 a_segments[k][2], ARC_SAMPLES)>>]
          \o
          [k \in 1..Len(b_segments) |->
              <<b_segments[k][3],
                arc_path_annulus(CX, CY, B_RX, B_RY, THICKNESS, b_segments[k][1],
                                 b_segments[k][2], ARC_SAMPLES)>>]
    /\ pc' = "sort"
    /\ UNCHANGED <<params, i, crossings, diagnostic, a_gap_halves, b_gap_halves,
                   idx, a_arcs, b_arcs, a_segments, b_segments, svg, call>>

\* The place of path k in the stable sort by z.
ZRank(list, k) ==
    1 + Cardinality({j \in 1..Len(list) :
                        \/ list[j][1] < list[k][1]
                        \/ (list[j][1] = list[k][1] /\ j < k)})

\* all_paths.sort(key=lambda x: x[0]), a stable sort
\* (faulty variant: the list left in generation order)
SortByZUnsorted(list) == list

SortByZ(list) ==
    [r \in 1..Len(list) |-> list[CHOOSE k \in 1..Len(list) : ZRank(list, k) = r]]

\* The sort, and the document: one <path> line per shape, in list order.
SortAndEmit ==
    /\ pc = "sort"
    /\ all_paths' = SortByZ(all_paths)
    /\ svg' = [k \in 1..Len(all_paths) |-> SortByZ(all_paths)[k][2]]
    /\ pc' = "done"
    /\ UNCHANGED <<params, i, crossings, diagnostic, a_gap_halves, b_gap_halves,
                   idx, a_arcs, b_arcs, a_segments, b_segments, call>>

\* ── Specifications ──────────────────────────────────────────────────────

NoCall == [ta |-> 0, tb |-> 0, under_is_a |-> FALSE, state |-> "none", result |-> 0]

Pipeline(p, c) ==
    /\ pc = p
    /\ i = 0
    /\ crossings = <<>>
    /\ diagnostic = "none"
    /\ a_gap_halves = <<>>
    /\ b_gap_halves = <<>>
    /\ idx = 0
    /\ a_arcs = <<>>
    /\ b_arcs = <<>>
    /\ a_segments = <<>>
    /\ b_segments = <<>>
    /\ all_paths = <<>>
    /\ svg = "none"
    /\ call = c

\* generate_svg, run on each parameter set.
Init ==
    /\ params \in {ParameterSets[k] : k \in 1..Len(ParameterSets)}
    /\ Pipeline("find", NoCall)

Next ==
    \/ FindStep
    \/ FindReturn
    \/ AssertFail
    \/ AssertPass
    \/ ComputeGaps
    \/ RingAStep
    \/ RingBStep
    \/ GeneratePaths
    \/ SortAndEmit

Spec == Init /\ [][Next]_vars

\* crossing_gap_half as a function of its arguments: ta and tb on a grid of
\* GridSteps angles per revolution, either band under.
GridSteps == 16

GridAngle(k) == (TwoPi * k) \div GridSteps

InitGap ==
    /\ params \in {ParameterSets[k] : k \in 1..Len(ParameterSets)}
    /\ \E ka \in 0..(GridSteps - 1), kb \in 0..(GridSteps - 1), u \in BOOLEAN :
          Pipeline("call", [ta |-> GridAngle(ka), tb |-> GridAngle(kb),
                            under_is_a |-> u, state |-> "pending", result |-> 0])

GapCall ==
    /\ pc = "call"
    /\ call.state = "pending"
    /\ call' = IF GapRaises(call.ta, call.tb, call.under_is_a)
               THEN [call EXCEPT !.state = "raised"]
               ELSE [call EXCEPT !.state = "returned",
                                 !.result = crossing_gap_half(call.ta, call.tb,
                                                              call.under_is_a)]
    /\ UNCHANGED <<params, pc, i, crossings, diagnostic, a_gap_halves, b_gap_halves,
                   idx, a_arcs, b_arcs, a_segments, b_segments, all_paths, svg>>

NextGap == GapCall

SpecGap == InitGap /\ [][NextGap]_vars

\* ── Properties ──────────────────────────────────────────────────────────

\* find_crossings has returned (the list is sorted and final).
Returned == pc \notin {"find", "call"}

\* Both segment loops have run.
ArcsBuilt == pc \in {"paths", "sort", "done"}

\* The band is on top at crossing ci: A where a_on_top says so, B elsewhere.
OnTop(is_a, ci) == At(a_on_top, ci) = is_a

\* The candidate arcs whose retracted end exceeds their start.
Surviving(arcs) == SelectSeq(arcs, LAMBDA r : r.t_end > r.t_start)

\* C1: with the built-in radii find_crossings returns exactly 4 distinct
\* pairs, and the point of A at each ta satisfies B's implicit equation
\* (x/B_RX)^2 + (y/B_RY)^2 = 1 within the tolerance 0.003.
C1_FourCrossingsOnB ==
    (params = BuiltIn /\ Returned) =>
        /\ Len(crossings) = 4
        /\ \A j, k \in 1..Len(crossings) : j # k => crossings[j] # crossings[k]
        /\ \A k \in 1..Len(crossings) :
              LET x == Mul(9 * One, Cos(crossings[k][1]))
                  y == Mul(5500000, Sin(crossings[k][1]))
                  u == Div(x, 5500000)
                  v == Div(y, 9 * One)
              IN  Abs(Mul(u, u) + Mul(v, v) - One) < 3000

C1_Witness == params = BuiltIn /\ pc = "assert" /\ Len(crossings) = 4

\* C2: when the number of crossings is not 4, generate_svg aborts with a
\* diagnostic holding the count, before any gap, arc or shape is computed,
\* and nothing runs after the abort: no document is returned.
C2_AbortOnWrongCount ==
    /\ (pc \notin {"find", "assert", "call"} /\ Len(crossings) # 4) =>
          /\ pc = "aborted"
          /\ diagnostic = <<"Expected 4 crossings, got", Len(crossings)>>
          /\ a_gap_halves = <<>> /\ b_gap_halves = <<>>
          /\ a_arcs = <<>> /\ b_arcs = <<>>
          /\ a_segments = <<>> /\ b_segments = <<>>
          /\ all_paths = <<>>
          /\ svg = "none"
          /\ ~ENABLED Next
    /\ pc = "aborted" => Len(crossings) # 4

C2_Witness == pc = "aborted" /\ Len(crossings) > 4 /\ diagnostic[2] = Len(crossings)

\* C3: the returned list has its ta values in [0, 2*pi), strictly increasing,
\* and any two of them at least the minimum separation 0.05 apart.
C3_SortedAndSeparated ==
    Returned =>
        /\ \A k \in 1..Len(crossings) :
              crossings[k][1] >= 0 /\ crossings[k][1] < TwoPi
        /\ \A j, k \in 1..Len(crossings) :
              j < k => /\ crossings[j][1] < crossings[k][1]
                       /\ crossings[k][1] - crossings[j][1] >= 50000

C3_Witness == pc = "assert" /\ Len(crossings) > 4

\* C4: each of the 4 crossings has one occluder, and around each band, in the
\* order the assembler sorts the crossings (the arcs' start and end
\* crossings, last back to first), adjacent crossings have different occluders.
C4_Alternation ==
    /\ Len(a_on_top) = 4
    /\ \A ci \in 0..3 : At(a_on_top, ci) \in BOOLEAN
    /\ ArcsBuilt =>
          \A arcs \in {a_arcs, b_arcs} :
              /\ {arcs[k].ci_start : k \in 1..Len(arcs)} = 0..3
              /\ \A k \in 1..Len(arcs) :
                    At(a_on_top, arcs[k].ci_start) # At(a_on_top, arcs[k].ci_end)

\* Both bands have their 4 arcs, the last one of B from crossing 3 back to 0.
C4_Witness ==
    /\ pc = "done"
    /\ Len(a_arcs) = 4 /\ Len(b_arcs) = 4
    /\ b_arcs[4].ci_start = 3 /\ b_arcs[4].ci_end = 0

\* C5: an arc yields a shape if and only if its end exceeds its start after
\* gap retraction; the shapes are exactly the surviving arcs of A then of B.
C5_ShapeIffNonEmpty ==
    ArcsBuilt =>
        /\ a_segments = [k \in 1..Len(Surviving(a_arcs)) |->
              <<Surviving(a_arcs)[k].t_start, Surviving(a_arcs)[k].t_end,
                Surviving(a_arcs)[k].z>>]
        /\ b_segments = [k \in 1..Len(Surviving(b_arcs)) |->
              <<Surviving(b_arcs)[k].t_start, Surviving(b_arcs)[k].t_end,
                Surviving(b_arcs)[k].z>>]
        /\ pc \in {"sort", "done"} =>
              /\ Len(all_paths) = Len(Surviving(a_arcs)) + Len(Surviving(b_arcs))
              /\ \A k \in 1..Len(all_paths) :
                    all_paths[k][2].t_start < all_paths[k][2].t_end
        /\ pc = "done" => Len(svg) = Len(Surviving(a_arcs)) + Len(Surviving(b_arcs))

C5_Witness ==
    /\ pc = "done"
    /\ \E k \in 1..4 : a_arcs[k].t_end <= a_arcs[k].t_start \/ b_arcs[k].t_end <= b_arcs[k].t_start
    /\ Len(svg) > 0

\* C6: in the final list no front-ranked shape precedes a back-ranked one, and
\* a shape is front-ranked exactly when its band is on top at the start
\* crossing of its arc; the document lists the shapes in that order.
C6_BackBeforeFront ==
    pc = "done" =>
        /\ \A j, k \in 1..Len(all_paths) :
              j < k => ~(all_paths[j][1] = 2 /\ all_paths[k][1] = 0)
        /\ \A k \in 1..Len(all_paths) :
              LET d == all_paths[k][2]
                  is_a == d.rx = A_RX /\ d.ry = A_RY
                  arcs == IF is_a THEN a_arcs ELSE b_arcs
              IN  /\ all_paths[k][1] \in {0, 2}
                  /\ \E n \in 1..Len(arcs) :
                        /\ arcs[n].t_start = d.t_start
                        /\ arcs[n].t_end = d.t_end
                        /\ (all_paths[k][1] = 2) = OnTop(is_a, arcs[n].ci_start)
        /\ svg = [k \in 1..Len(all_paths) |-> all_paths[k][2]]

\* A back-ranked shape of B (generated last) precedes a front-ranked shape of A.
C6_Witness ==
    /\ pc = "done"
    /\ \E j, k \in 1..Len(all_paths) :
          /\ j < k
          /\ all_paths[j][1] = 0 /\ all_paths[j][2].rx = B_RX /\ B_RX # A_RX
          /\ all_paths[k][1] = 2 /\ all_paths[k][2].rx = A_RX

\* The tangent speed of the under band at the arguments of the call.
CallSpeed ==
    IF call.under_is_a THEN ellipse_tangent_speed(A_RX, A_RY, call.ta)
    ELSE ellipse_tangent_speed(B_RX, B_RY, call.tb)

\* The sine the projected width is divided by: of the crossing angle, or the
\* floor 0.01 when the angle is at or below 0.01.
CallSine ==
    IF CrossAngle(call.ta, call.tb) <= 10000 THEN 10000
    ELSE Sin(CrossAngle(call.ta, call.tb))

\* C7: crossing_gap_half never raises; its result is non-negative and bounded
\* (by the floored sine and the smallest radius); with the crossing angle at
\* or below 0.01 the result is the one of the floor value 0.01.
C7_GapFiniteNonNegative ==
    /\ call.state # "raised"
    /\ call.state = "returned" =>
          /\ call.result >= 0
          /\ Mul(call.result, Min(Min(A_RX, A_RY), Min(B_RX, B_RY)))
                <= 51 * THICKNESS + GAP_MARGIN
          /\ CrossAngle(call.ta, call.tb) <= 10000 =>
                Abs(Mul(call.result, CallSpeed) - (50 * THICKNESS + GAP_MARGIN)) <= 20

\* A call with parallel tangents (both vertical at ta = tb = 0) has returned.
C7_Witness ==
    /\ call.state = "returned"
    /\ call.ta = 0 /\ call.tb = 0
    /\ CrossAngle(call.ta, call.tb) <= 10000

\* C8 as claimed: gap_half = ((thickness / sin(angle)) + margin) / 2 / speed.
C8_AsClaimed ==
    call.state = "returned" =>
        Abs(call.result
            - Div((Div(THICKNESS, CallSine) + GAP_MARGIN) \div 2, CallSpeed)) <= 20

\* C8 as the code has it: gap_half = (thickness / sin(angle) / 2 + margin) /
\* speed of the under band: the whole margin is added to half the projected
\* width.  Stated as gap_half * speed = width / 2 + margin.
C8_MarginAddedToHalfWidth ==
    call.state = "returned" =>
        Abs(Mul(call.result, CallSpeed)
            - ((Div(THICKNESS, CallSine) \div 2) + GAP_MARGIN)) <= 20

\* A call with B under, at a point where the two speeds differ, has returned.
C8_Witness ==
    /\ call.state = "returned"
    /\ ~call.under_is_a
    /\ CallSpeed # ellipse_tangent_speed(A_RX, A_RY, call.ta)
    /\ CrossAngle(call.ta, call.tb) > 10000

\* The gap table of a band: a half-angle at each crossing where it is under.
GapTableOk(gap_halves, is_a) ==
    /\ DOMAIN gap_halves = {ci \in 0..3 : ~OnTop(is_a, ci)}
    /\ Cardinality(DOMAIN gap_halves) = 2
    /\ \A ci \in DOMAIN gap_halves :
          /\ gap_halves[ci] > 0
          /\ Abs(Mul(gap_halves[ci],
                     IF is_a
                     THEN ellipse_tangent_speed(A_RX, A_RY, At(crossings, ci)[1])
                     ELSE ellipse_tangent_speed(B_RX, B_RY, At(crossings, ci)[2]))
                 - ((Div(THICKNESS,
                         IF CrossAngle(At(crossings, ci)[1], At(crossings, ci)[2]) <= 10000
                         THEN 10000
                         ELSE Sin(CrossAngle(At(crossings, ci)[1], At(crossings, ci)[2])))
                     \div 2) + GAP_MARGIN)) <= 20

\* The ends of the arcs of a band: moved by the gap where the band is under,
\* the crossing's own parameter where it is on top.
ArcEndsOk(arcs, gap_halves, is_a, tcol) ==
    \A k \in 1..Len(arcs) :
        LET r == arcs[k]
        IN  /\ r.from = normalize_angle(At(crossings, r.ci_start)[tcol])
            /\ r.to \in {normalize_angle(At(crossings, r.ci_end)[tcol]),
                         normalize_angle(At(crossings, r.ci_end)[tcol]) + TwoPi}
            /\ r.t_start = IF OnTop(is_a, r.ci_start) THEN r.from
                           ELSE r.from + gap_halves[r.ci_start]
            /\ r.t_end = IF OnTop(is_a, r.ci_end) THEN r.to
                         ELSE r.to - gap_halves[r.ci_end]

\* At each crossing where the band is under, the arc that ends there and the
\* arc that starts there are cut by the same half-angle.
SameOnEachSide(arcs, gap_halves) ==
    \A ci \in DOMAIN gap_halves :
        \E j, k \in 1..Len(arcs) :
            /\ arcs[j].ci_end = ci
            /\ arcs[k].ci_start = ci
            /\ arcs[j].to - arcs[j].t_end = gap_halves[ci]
            /\ arcs[k].t_start - arcs[k].from = gap_halves[ci]

\* C9: an arc's start is advanced by the start crossing's gap half-angle iff
\* the band is under there, its end retracted by the end crossing's iff the
\* band is under there; on top the end point is the crossing's parameter.
\* Each crossing has a gap in exactly one band, two per band, the same
\* half-angle on each side.
C9_GapOnlyWhereUnder ==
    ArcsBuilt =>
        /\ GapTableOk(a_gap_halves, TRUE)
        /\ GapTableOk(b_gap_halves, FALSE)
        /\ \A ci \in 0..3 : (ci \in DOMAIN a_gap_halves) # (ci \in DOMAIN b_gap_halves)
        /\ ArcEndsOk(a_arcs, a_gap_halves, TRUE, 1)
        /\ ArcEndsOk(b_arcs, b_gap_halves, FALSE, 2)
        /\ SameOnEachSide(a_arcs, a_gap_halves)
        /\ SameOnEachSide(b_arcs, b_gap_halves)

C9_Witness ==
    /\ pc = "done"
    /\ \E k \in 1..4 : a_arcs[k].t_end < a_arcs[k].to
    /\ \E k \in 1..4 : b_arcs[k].t_start > b_arcs[k].from

\* The candidate arcs of a band before the gaps: 4 arcs of positive length,
\* from the sorted normalized parameters, each ending where the next starts,
\* only the last one passing 2*pi, together one revolution.
ArcsPartition(arcs) ==
    /\ Len(arcs) = 4
    /\ \A k \in 1..4 :
          /\ arcs[k].from >= 0 /\ arcs[k].from < TwoPi
          /\ arcs[k].to > arcs[k].from
          /\ arcs[k].ci_end = arcs[(k % 4) + 1].ci_start
          /\ k < 4 => /\ arcs[k].to = arcs[k + 1].from
                      /\ arcs[k].to < TwoPi
    /\ arcs[4].to = arcs[1].from + TwoPi
    /\ (arcs[1].to - arcs[1].from) + (arcs[2].to - arcs[2].from)
       + (arcs[3].to - arcs[3].from) + (arcs[4].to - arcs[4].from) = TwoPi

\* C10: each band has 4 candidate arcs (8 in all) between cyclically
\* consecutive crossings, of positive length before the gaps, only the last
\* wrapped past 2*pi, covering one revolution.
C10_ArcsCoverRevolution ==
    ArcsBuilt => ArcsPartition(a_arcs) /\ ArcsPartition(b_arcs)

C10_Witness ==
    /\ pc = "done"
    /\ Len(a_arcs) + Len(b_arcs) = 8
    /\ a_arcs[4].to > TwoPi /\ b_arcs[4].to > TwoPi
====
